---- MODULE Spec2Model ----
(***************************************************************************)
(* Track resolution pipeline of the DJ mix track downloader:               *)
(*   RateLimiter.throttle           (utils/rateLimiter.ts)                  *)
(*   NotSliderService.search        (services/resolver/notsliderService.ts) *)
(*   SoundCloudService.search       (services/youtube/youtubeService.ts)    *)
(*   YouTubeDlService.search        (services/resolver/youtubeDlService.ts) *)
(*   AnalyzeYoutubeMixHandler.searchTracksWithWaterfall / searchSingleTrack *)
(*     / handle / calculateSummary  (handlers/analyzeYoutubeMix.ts)         *)
(*   ScriptBuilder.build            (services/script/scriptBuilder.ts)      *)
(*   loadWorkerConfig               (types/index.ts)                        *)
(* Time is the value of Date.now() in milliseconds.  Strings that the code  *)
(* builds by concatenation are sequences of text fragments.                 *)
(***************************************************************************)
EXTENDS Integers, Sequences, FiniteSets, TLC

(* ----------------------------- bounds ---------------------------------- *)
MaxTracks == 3
MaxConcurrency == 3
TickMs == 500
EpochMs == 1000
MaxTime == 3000
SeqCalls == 3
SearchTracks == 2
Callers == 3
SummaryLen == 3
HandleTracks == 2
MaxIdleLoops == 2

(* ------------------------ program constants ---------------------------- *)
NotsliderDelayMs == 1000
SoundcloudDelayMs == 600
OpenaiDelayMs == 1000
retryAttempts == 2
BackoffBaseMs == 1000

VARIABLES
  now,            \* Date.now()
  lastRequest,    \* RateLimiter.lastRequest: Map<string, number>
  input,          \* tracks handed to searchTracksWithWaterfall
  maxConcurrent,  \* config.MAX_CONCURRENT_SEARCHES
  lookupOutcomes, \* outcomes a NotSlider lookup can have in this run
  faults,         \* whether a provider call may throw in this run
  mainPc,         \* position of searchTracksWithWaterfall
  i,              \* loop index of searchTracksWithWaterfall (0-based)
  results,        \* results array of searchTracksWithWaterfall
  pc,             \* position of each searchSingleTrack call
  wake,           \* earliest firing time of the timer a call is suspended on
  attempt,        \* loop variable of NotSliderService.search
  settled,        \* value each searchSingleTrack promise resolved with
  doneOrder,      \* tracks in the order their promises settled
  trace,          \* per track: throttle returns, provider searches invoked and
                  \* what they produced
  outcomes,       \* per track: outcome of each NotSlider lookup attempt
  returns,        \* per service: count, first time and smallest spacing of
                  \* the returns of throttle
  seqService,     \* sequential caller: the service it throttles
  seqPc,          \* sequential caller: position
  seqWake,        \* sequential caller: earliest firing time of its timer
  seqLeft,        \* sequential caller: throttle calls still to issue
  caller,         \* concurrent callers of throttle: position, service, timer
  job,            \* handle: arguments, extracted tracks and start time
  hPc,            \* position of handle
  report          \* what handle returned or threw

vars == <<now, lastRequest, input, maxConcurrent, lookupOutcomes, faults,
          mainPc, i, results, pc, wake, attempt, settled, doneOrder, trace, outcomes,
          returns, seqService, seqPc, seqWake, seqLeft, caller, job, hPc,
          report>>

batchVars == <<input, maxConcurrent, lookupOutcomes, faults, mainPc, i, results, pc,
               wake, attempt, settled, doneOrder, trace, outcomes>>

seqVars == <<seqService, seqPc, seqWake, seqLeft>>

limVars == <<caller>>

handleVars == <<job, hPc, report>>

(* ------------------------------ helpers -------------------------------- *)
Min(a, b) == IF a < b THEN a ELSE b

RECURSIVE Pow2(_)
Pow2(n) == IF n <= 0 THEN 1 ELSE 2 * Pow2(n - 1)

Max(a, b) == IF a > b THEN a ELSE b

\* The numbers of the loop of searchTracksWithWaterfall are integers or NaN;
\* NaN is written as an integer no index or window of the model can take.
NaN == -999999

IsNaN(x) == x = NaN

\* a + b
Add(a, b) == IF IsNaN(a) \/ IsNaN(b) THEN NaN ELSE a + b

\* a < b
Less(a, b) == IF IsNaN(a) \/ IsNaN(b) THEN FALSE ELSE a < b

\* ToIntegerOrInfinity of an argument of slice
ToIntegerOrInfinity(x) == IF IsNaN(x) THEN 0 ELSE x

\* an index of slice made relative to the array: negative counts from the end
RelativeIndex(x, len) ==
  LET r == ToIntegerOrInfinity(x)
  IN IF r < 0 THEN Max(len + r, 0) ELSE Min(r, len)

\* Array.prototype.slice(from, to) on a sequence, 0-based bounds as in JS.
Slice(s, from, to) ==
  LET lo == RelativeIndex(from, Len(s))
      hi == RelativeIndex(to, Len(s))
  IN IF hi <= lo THEN << >> ELSE [k \in 1..(hi - lo) |-> s[lo + k]]

\* a occurs in b as a contiguous run of fragments
IsSubstring(a, b) ==
  \E off \in 0..(Len(b) - Len(a)) : \A k \in 1..Len(a) : b[off + k] = a[k]

(* ---------------------------- RateLimiter ------------------------------ *)
limits ==
  [notslider |-> NotsliderDelayMs, soundcloud |-> SoundcloudDelayMs,
   openai |-> OpenaiDelayMs]

\* members every object literal inherits from Object.prototype
InheritedKeys ==
  {"constructor", "toString", "valueOf", "hasOwnProperty", "isPrototypeOf",
   "propertyIsEnumerable", "toLocaleString", "__proto__"}

\* this.limits[service]: the provider's own entry, a member inherited from
\* Object.prototype (truthy, with no delayMs), or undefined
configOf(service) ==
  IF service \in DOMAIN limits
  THEN [kind |-> "config", delayMs |-> limits[service]]
  ELSE IF service \in InheritedKeys
       THEN [kind |-> "inherited"]
       ELSE [kind |-> "undefined"]

\* this.lastRequest.get(service) || 0
LastOf(lr, service) == IF service \in DOMAIN lr THEN lr[service] ELSE 0

\* this.lastRequest.set(service, t)
SetLast(lr, service, t) ==
  [s \in (DOMAIN lr) \cup {service} |-> IF s = service THEN t ELSE lr[s]]

\* throttle sleeping for the elapsed time instead of the remaining time
throttleWaitsElapsed(service, lr, t) ==
  IF service \notin DOMAIN limits
  THEN [suspend |-> FALSE, wake |-> t, lr |-> lr, known |-> FALSE]
  ELSE LET last == LastOf(lr, service)
           elapsed == t - last
       IN IF elapsed < limits[service]
          THEN [suspend |-> TRUE, wake |-> t + elapsed, lr |-> lr, known |-> TRUE]
          ELSE [suspend |-> FALSE, wake |-> t,
                lr |-> SetLast(lr, service, t), known |-> TRUE]

\* a limiter keeping one timestamp for all services
throttleGlobal(service, lr, t) ==
  LET config == configOf(service)
      last == IF DOMAIN lr = {} THEN 0
              ELSE CHOOSE x \in {lr[s] : s \in DOMAIN lr} :
                     \A y \in {lr[s] : s \in DOMAIN lr} : y <= x
      elapsed == t - last
  IN IF config.kind = "undefined"
     THEN [suspend |-> FALSE, wake |-> t, lr |-> lr, known |-> FALSE]
     ELSE IF config.kind = "config" /\ elapsed < config.delayMs
          THEN [suspend |-> TRUE, wake |-> t + (config.delayMs - elapsed),
                lr |-> lr, known |-> TRUE]
          ELSE [suspend |-> FALSE, wake |-> t,
                lr |-> SetLast(lr, service, t), known |-> TRUE]

\* a no-wait path that does not record the dispatch
throttleUnrecorded(service, lr, t) ==
  LET config == configOf(service)
  IN IF config.kind = "undefined"
     THEN [suspend |-> FALSE, wake |-> t, lr |-> lr, known |-> FALSE]
     ELSE LET last == LastOf(lr, service)
              elapsed == t - last
          IN IF config.kind = "config" /\ elapsed < config.delayMs
             THEN [suspend |-> TRUE, wake |-> t + (config.delayMs - elapsed),
                   lr |-> lr, known |-> TRUE]
             ELSE [suspend |-> FALSE, wake |-> t, lr |-> lr, known |-> TRUE]

\* throttle sleeping for the whole delay whenever it has to wait
throttleFullDelay(service, lr, t) ==
  LET config == configOf(service)
  IN IF config.kind = "undefined"
     THEN [suspend |-> FALSE, wake |-> t, lr |-> lr, known |-> FALSE]
     ELSE LET last == LastOf(lr, service)
              elapsed == t - last
          IN IF config.kind = "config" /\ elapsed < config.delayMs
             THEN [suspend |-> TRUE, wake |-> t + config.delayMs,
                   lr |-> lr, known |-> TRUE]
             ELSE [suspend |-> FALSE, wake |-> t,
                   lr |-> SetLast(lr, service, t), known |-> TRUE]

\* throttle up to its await: either it suspends on a timer, or it records the
\* dispatch and returns without suspending.  elapsed < config.delayMs is false
\* when delayMs is undefined.
throttle(service, lr, t) ==
  LET config == configOf(service)
  IN IF config.kind = "undefined"
     THEN [suspend |-> FALSE, wake |-> t, lr |-> lr, known |-> FALSE]
     ELSE LET last == LastOf(lr, service)
              elapsed == t - last
          IN IF config.kind = "config" /\ elapsed < config.delayMs
             THEN [suspend |-> TRUE, wake |-> t + (config.delayMs - elapsed),
                   lr |-> lr, known |-> TRUE]
             ELSE [suspend |-> FALSE, wake |-> t,
                   lr |-> SetLast(lr, service, t), known |-> TRUE]

\* throttle after its timer fired
throttleResume(service, lr, t) == SetLast(lr, service, t)

(* ------------------------- NotSliderService ---------------------------- *)
\* What one lookup attempt meets: fetch rejects, the status is not 2xx,
\* reading the body rejects, cheerio cannot parse the body, the page has no
\* matching link, or it has one and the HEAD probe succeeds or fails.
AttemptOutcomes ==
  {"network_error", "http_error", "body_error", "unparseable", "no_link",
   "link_redirect_ok", "link_redirect_failed"}

\* the outcomes enumerated when several tracks are resolved together: one
\* thrown error, no candidate, and a candidate
BatchOutcomes == {"http_error", "no_link", "link_redirect_ok"}

CandidateUrl == "https://notslider.nl/dl/track.mp3"
FinalUrl == "https://cdn.notslider.nl/track.mp3"

\* message of the Error the try block throws
ErrorMessage(o) ==
  CASE o = "network_error" -> "fetch failed"
    [] o = "http_error" -> "HTTP 503: Service Unavailable"
    [] o = "body_error" -> "body stream error"

\* extractDownloadUrl: a candidate URL or null ("" stands for null); its own
\* try/catch turns a parse failure into null.
extractDownloadUrl(o) ==
  IF o \in {"link_redirect_ok", "link_redirect_failed"} THEN CandidateUrl ELSE ""

\* followRedirect giving up the URL when the probe fails
followRedirectEmpty(url, o) == IF o = "link_redirect_ok" THEN FinalUrl ELSE ""

\* followRedirect: response.url, or the URL it was given when the probe fails
followRedirect(url, o) == IF o = "link_redirect_ok" THEN FinalUrl ELSE url

foundOnNotslider(track, url) ==
  [track |-> track, found |-> TRUE, source |-> "notslider", downloadUrl |-> url,
   quality |-> "320kbps", format |-> "mp3"]

\* a try block that goes on to the next attempt although the page had a link
tryAttemptIgnoresCandidate(track, o) ==
  IF o \in {"network_error", "http_error", "body_error"}
  THEN [kind |-> "throw", message |-> ErrorMessage(o)]
  ELSE [kind |-> "fallthrough"]

\* a try block in which a failed redirect probe fails the attempt
tryAttemptFailsOnProbe(track, o) ==
  IF o \in {"network_error", "http_error", "body_error"}
  THEN [kind |-> "throw", message |-> ErrorMessage(o)]
  ELSE IF o = "link_redirect_failed"
       THEN [kind |-> "throw", message |-> "redirect failed"]
       ELSE LET downloadUrl == extractDownloadUrl(o)
            IN IF downloadUrl # ""
               THEN [kind |-> "return",
                     result |-> foundOnNotslider(track, followRedirect(downloadUrl, o))]
               ELSE [kind |-> "fallthrough"]

\* the try block of one loop iteration
tryAttempt(track, o) ==
  IF o \in {"network_error", "http_error", "body_error"}
  THEN [kind |-> "throw", message |-> ErrorMessage(o)]
  ELSE LET downloadUrl == extractDownloadUrl(o)
       IN IF downloadUrl # ""
          THEN [kind |-> "return",
                result |-> foundOnNotslider(track, followRedirect(downloadUrl, o))]
          ELSE [kind |-> "fallthrough"]

\* the catch block rethrowing on the last attempt
catchAttemptRethrows(track, a, message) ==
  IF a = retryAttempts - 1
  THEN [kind |-> "raise", message |-> message]
  ELSE [kind |-> "backoff", delay |-> BackoffBaseMs * Pow2(a)]

\* the catch block counting attempts from 1 in its backoff
catchAttemptDelaysFromOne(track, a, message) ==
  IF a = retryAttempts - 1
  THEN [kind |-> "return",
        result |-> [track |-> track, found |-> FALSE,
                    error |-> <<"Search failed after ", ToString(retryAttempts),
                                " attempts: ", message>>]]
  ELSE [kind |-> "backoff", delay |-> BackoffBaseMs * Pow2(a + 1)]

\* the catch block of one loop iteration
catchAttempt(track, a, message) ==
  IF a = retryAttempts - 1
  THEN [kind |-> "return",
        result |-> [track |-> track, found |-> FALSE,
                    error |-> <<"Search failed after ", ToString(retryAttempts),
                                " attempts: ", message>>]]
  ELSE [kind |-> "backoff", delay |-> BackoffBaseMs * Pow2(a)]

\* a return after the loop that reports the exhausted attempts as an error
notFoundAfterLoopAsFailure(track) ==
  [track |-> track, found |-> FALSE,
   error |-> <<"Search failed after ", ToString(retryAttempts),
               " attempts: ", "Unknown error">>]

\* the return after the loop
notFoundAfterLoop(track) ==
  [track |-> track, found |-> FALSE, error |-> <<"No 320kbps MP3 found">>]

\* One iteration of the loop of search, with the loop exit: the search returns
\* a result, goes on to the next attempt at once, or backs off first.
searchAttempt(track, a, o) ==
  LET b == tryAttempt(track, o)
  IN CASE b.kind = "return" -> [kind |-> "return", result |-> b.result]
       [] b.kind = "throw" -> catchAttempt(track, a, b.message)
       [] b.kind = "fallthrough" ->
            IF a + 1 < retryAttempts
            THEN [kind |-> "next"]
            ELSE [kind |-> "return", result |-> notFoundAfterLoop(track)]

(* ------------------- SoundCloudService, YouTubeDlService --------------- *)
\* a secondary provider that had been implemented and finds every track
soundcloudSearchFinds(track) ==
  [kind |-> "return",
   result |-> [track |-> track, found |-> TRUE,
               downloadUrl |-> "https://soundcloud.example/stream.mp3",
               quality |-> "128kbps", format |-> "mp3",
               source |-> "soundcloud"]]

\* SoundCloudService.search: a placeholder that returns not-found with a
\* fixed message
soundcloudSearch(track) ==
  [kind |-> "return",
   result |-> [track |-> track, found |-> FALSE,
               error |-> <<"SoundCloud integration not yet implemented">>]]

\* YouTubeDlService.search: a placeholder as well
youtubeDlSearch(track) ==
  [kind |-> "return",
   result |-> [track |-> track, found |-> FALSE,
               error |-> <<"yt-dlp service not yet implemented">>]]

(* ------------------------- searchSingleTrack --------------------------- *)
\* The part of the state the handlers below transform.
St ==
  [lr |-> lastRequest, mainPc |-> mainPc, i |-> i, results |-> results,
   pc |-> pc, wake |-> wake, attempt |-> attempt, settled |-> settled,
   doneOrder |-> doneOrder, trace |-> trace, returns |-> returns]

Apply(st) ==
  /\ lastRequest' = st.lr
  /\ mainPc' = st.mainPc
  /\ i' = st.i
  /\ results' = st.results
  /\ pc' = st.pc
  /\ wake' = st.wake
  /\ attempt' = st.attempt
  /\ settled' = st.settled
  /\ doneOrder' = st.doneOrder
  /\ trace' = st.trace
  /\ returns' = st.returns

\* throttle(service) returned at time t; prev is the time of the return before
noteReturn(rt, service, prev, t) ==
  [rt EXCEPT ![service] =
     [n |-> @.n + 1,
      first |-> IF @.n = 0 THEN t ELSE @.first,
      minGap |-> IF @.n = 0 THEN @.minGap ELSE Min(@.minGap, t - prev)]]

\* throttle(service), called for track k, ran to its return at time t, with
\* or without a timer
throttled(st, k, service, lr, t) ==
  [st EXCEPT !.lr = lr,
             !.returns = noteReturn(@, service, LastOf(st.lr, service), t),
             !.trace[k] = Append(@, [ev |-> "throttle", provider |-> service])]

logCall(st, k, provider) ==
  [st EXCEPT !.trace[k] = Append(@, [ev |-> "call", provider |-> provider])]

logReturn(st, k, provider, r) ==
  [st EXCEPT !.trace[k] =
     Append(@, [ev |-> "return", provider |-> provider, result |-> r])]

logRaise(st, k, provider, message) ==
  [st EXCEPT !.trace[k] =
     Append(@, [ev |-> "raise", provider |-> provider, message |-> message])]

\* the promise resolving with a copy that keeps only track and found
resolveTrackRewrapped(st, k, result) ==
  [st EXCEPT !.pc[k] = "done", !.wake[k] = 0, !.attempt[k] = 0,
             !.settled[k] = [track |-> result.track, found |-> result.found],
             !.doneOrder = Append(@, k)]

\* a resolution that pushes its result to the list itself
resolveTrackPushes(st, k, result) ==
  [st EXCEPT !.pc[k] = "done", !.wake[k] = 0, !.attempt[k] = 0,
             !.settled[k] = result, !.doneOrder = Append(@, k),
             !.results = Append(@, result)]

\* the promise of searchSingleTrack resolves
resolveTrack(st, k, result) ==
  [st EXCEPT !.pc[k] = "done", !.wake[k] = 0, !.attempt[k] = 0,
             !.settled[k] = result, !.doneOrder = Append(@, k)]

\* the promise of searchSingleTrack rejects
rejectTrack(st, k) ==
  [st EXCEPT !.pc[k] = "rejected", !.wake[k] = 0, !.attempt[k] = 0,
             !.doneOrder = Append(@, k)]

\* the catch block rethrowing: the promise rejects
catchTrackRethrows(st, k, track, message) == rejectTrack(st, k)

\* the catch block of searchSingleTrack
catchTrack(st, k, track, message) ==
  resolveTrack(st, k, [track |-> track, found |-> FALSE,
                       error |-> <<"Search failed: ", message>>])

\* What the catch block of searchSingleTrack is there for: a statement of the
\* try block throws.  No provider of the source does; a run with the fault
\* "raise" has the call of the secondary provider throw an Error.
ProviderFaults == {"none", "raise"}

thrownInTry == [kind |-> "raise", message |-> "provider call failed"]

\* a waterfall that never stops at a found result
returnsFoundNever(r) == FALSE

\* if (result.found) return result
returnsFound(r) == r.found

\* ${result.error} inside the template literal
errorText(r) == IF "error" \in DOMAIN r THEN r.error ELSE <<"undefined">>

\* the all-failed result leaving out the error of SoundCloud
allSourcesFailedOmitting(track, ns, sc, yt) ==
  [track |-> track, found |-> FALSE,
   error |-> <<"Not found on any source. NotSlider: ">> \o errorText(ns)
             \o <<", YouTube-dl: ">> \o errorText(yt)]

\* the result built when every source failed
allSourcesFailed(track, ns, sc, yt) ==
  [track |-> track, found |-> FALSE,
   error |-> <<"Not found on any source. NotSlider: ">> \o errorText(ns)
             \o <<", SoundCloud: ">> \o errorText(sc)
             \o <<", YouTube-dl: ">> \o errorText(yt)]

\* the YouTube-dl search returned yt
afterYoutubeDl(st, k, track, ns, sc, yt) ==
  LET st1 == logReturn(st, k, "youtube", yt)
  IN IF returnsFound(yt)
     THEN resolveTrack(st1, k, yt)
     ELSE resolveTrack(st1, k, allSourcesFailed(track, ns, sc, yt))

\* YouTubeDlService.search is invoked, without a throttle; it has no await,
\* so it completes before any timer or response can be handled
invokeYoutubeDl(st, k, track, ns, sc) ==
  LET st1 == logCall(st, k, "youtube")
      r == youtubeDlSearch(track)
  IN IF r.kind = "raise"
     THEN catchTrack(logRaise(st1, k, "youtube", r.message), k, track, r.message)
     ELSE afterYoutubeDl(st1, k, track, ns, sc, r.result)

\* the SoundCloud search returned sc
afterSoundcloud(st, k, track, ns, sc) ==
  LET st1 == logReturn(st, k, "soundcloud", sc)
  IN IF returnsFound(sc)
     THEN resolveTrack(st1, k, sc)
     ELSE invokeYoutubeDl(st1, k, track, ns, sc)

\* SoundCloudService.search is invoked after its throttle returned; it has no
\* await either
invokeSoundcloud(st, k, track, ns, so) ==
  LET st1 == logCall(st, k, "soundcloud")
      r == IF so = "raise" THEN thrownInTry ELSE soundcloudSearch(track)
  IN IF r.kind = "raise"
     THEN catchTrack(logRaise(st1, k, "soundcloud", r.message), k, track, r.message)
     ELSE afterSoundcloud(st1, k, track, ns, r.result)

\* the NotSlider search returned ns
afterNotslider(st, k, track, ns, t, so) ==
  LET st1 == logReturn(st, k, "notslider", ns)
  IN IF returnsFound(ns)
     THEN resolveTrack(st1, k, ns)
     ELSE LET th == throttle("soundcloud", st1.lr, t)
          IN IF th.suspend
             THEN [st1 EXCEPT !.pc[k] = "sc_throttle", !.wake[k] = th.wake,
                              !.attempt[k] = 0]
             ELSE invokeSoundcloud(throttled(st1, k, "soundcloud", th.lr, t),
                                   k, track, ns, so)

\* NotSliderService.search is invoked after its throttle returned: the first
\* lookup request is issued
invokeNotslider(st, k) ==
  [logCall(st, k, "notslider") EXCEPT !.pc[k] = "ns_fetch", !.wake[k] = 0,
                                      !.attempt[k] = 0]

\* searchSingleTrack from its call to its first suspension
beginTrack(st, track, t) ==
  LET k == track.index
      th == throttle("notslider", st.lr, t)
  IN IF th.suspend
     THEN [st EXCEPT !.pc[k] = "ns_throttle", !.wake[k] = th.wake]
     ELSE invokeNotslider(throttled(st, k, "notslider", th.lr, t), k)

\* notsliderResult, as searchSingleTrack holds it after the search returned
notsliderResult(tr) ==
  LET p == CHOOSE p \in 1..Len(tr) :
             tr[p].ev = "return" /\ tr[p].provider = "notslider"
  IN tr[p].result

(* --------------------- searchTracksWithWaterfall ----------------------- *)
\* a batch holding every remaining track
batchOfRest(tracks, from, c) == Slice(tracks, from, Len(tracks))

\* tracks.slice(i, i + maxConcurrent)
batchOf(tracks, from, c) == Slice(tracks, from, Add(from, c))

\* a map that calls searchSingleTrack for the first track of the batch only
RECURSIVE dispatchHeadOnly(_, _, _)
dispatchHeadOnly(st, batch, t) ==
  IF batch = << >> THEN st
  ELSE beginTrack(st, Head(batch), t)

\* batch.map(track => this.searchSingleTrack(track, logger)): every call runs
\* up to its first suspension before the next one starts.
RECURSIVE dispatch(_, _, _)
dispatch(st, batch, t) ==
  IF batch = << >> THEN st
  ELSE dispatch(beginTrack(st, Head(batch), t), Tail(batch), t)

\* the values in the order in which the promises settled
promiseAllByCompletion(batch, st) ==
  LET members == {batch[k].index : k \in 1..Len(batch)}
      order == SelectSeq(st.doneOrder, LAMBDA x : x \in members)
  IN [k \in 1..Len(batch) |-> st.settled[order[k]]]

\* await Promise.all(batchPromises): the values in the order of the promises
promiseAll(batch, st) ==
  [k \in 1..Len(batch) |-> st.settled[batch[k].index]]

\* the loop test and, when it passes, the dispatch of the next batch
loopStepOn(tracks, st, t) ==
  IF Less(st.i, Len(tracks))
  THEN [dispatch(st, batchOf(tracks, st.i, maxConcurrent), t) EXCEPT !.mainPc = "awaiting"]
  ELSE [st EXCEPT !.mainPc = "returned"]

\* the same for the track list the running call was given
loopStep(st, t) == loopStepOn(input, st, t)

(* ------------------------------ the batch ------------------------------ *)
Track(k) == [index |-> k]

NoResult == [none |-> TRUE]

Tracks == 1..Len(input)

\* handle is not running
NoJob == [skipLLMCleanup |-> FALSE, startTime |-> 0]

NoReturns == [s \in DOMAIN limits |-> [n |-> 0, first |-> 0, minGap |-> MaxTime]]

InitBatch(sizes, windows, lookups, thrown) ==
  /\ now = EpochMs
  /\ lastRequest = << >>
  /\ input \in {[k \in 1..n |-> Track(k)] : n \in sizes}
  /\ maxConcurrent \in windows
  /\ lookupOutcomes = lookups
  /\ faults = thrown
  /\ mainPc = "idle"
  /\ i = 0
  /\ results = << >>
  /\ pc = [k \in Tracks |-> "pending"]
  /\ wake = [k \in Tracks |-> 0]
  /\ attempt = [k \in Tracks |-> 0]
  /\ settled = [k \in Tracks |-> NoResult]
  /\ doneOrder = << >>
  /\ trace = [k \in Tracks |-> << >>]
  /\ outcomes = [k \in Tracks |-> << >>]
  /\ returns = NoReturns
  /\ seqService = "notslider"
  /\ seqPc = "off"
  /\ seqWake = 0
  /\ seqLeft = 0
  /\ caller = << >>
  /\ job = NoJob
  /\ hPc = "off"
  /\ report = NoResult

Init == InitBatch(1..MaxTracks, 1..MaxConcurrency, BatchOutcomes, ProviderFaults)

\* the clock advances; a timer may fire at its time or any time after it
Tick ==
  /\ now + TickMs <= MaxTime
  /\ mainPc # "returned"
  /\ now' = now + TickMs
  /\ UNCHANGED <<lastRequest, returns>>
  /\ UNCHANGED <<batchVars, limVars, handleVars>>
  /\ UNCHANGED seqVars

\* searchTracksWithWaterfall is called: the first batch is dispatched
StartBatch ==
  /\ mainPc = "idle"
  /\ Apply(loopStep([St EXCEPT !.i = 0, !.results = << >>], now))
  /\ UNCHANGED <<now, input, maxConcurrent, lookupOutcomes, faults, outcomes>>
  /\ UNCHANGED <<seqVars, limVars, handleVars>>

\* a pool that moves on as soon as one member of the batch has settled
ChunkJoinEarly ==
  /\ mainPc = "awaiting"
  /\ LET batch == batchOf(input, i, maxConcurrent)
         members == {batch[k].index : k \in 1..Len(batch)}
     IN /\ \E k \in members : pc[k] = "done"
        /\ Apply(loopStep([St EXCEPT !.results = @ \o promiseAll(batch, St),
                                     !.i = Add(@, maxConcurrent)], now))
  /\ UNCHANGED <<now, input, maxConcurrent, lookupOutcomes, faults, outcomes>>
  /\ UNCHANGED <<seqVars, limVars, handleVars>>

\* Promise.all of the current batch settles: the results are pushed and the
\* next batch is dispatched, or the rejection leaves searchTracksWithWaterfall
ChunkJoin ==
  /\ mainPc = "awaiting"
  /\ Add(i, maxConcurrent) >= -MaxIdleLoops \/ IsNaN(maxConcurrent)
  /\ LET batch == batchOf(input, i, maxConcurrent)
         members == {batch[k].index : k \in 1..Len(batch)}
     IN /\ \/ \A k \in members : pc[k] = "done"
           \/ \E k \in members : pc[k] = "rejected"
        /\ IF \E k \in members : pc[k] = "rejected"
           THEN Apply([St EXCEPT !.mainPc = "failed"])
           ELSE Apply(loopStep([St EXCEPT !.results = @ \o promiseAll(batch, St),
                                          !.i = Add(@, maxConcurrent)], now))
  /\ UNCHANGED <<now, input, maxConcurrent, lookupOutcomes, faults, outcomes>>
  /\ UNCHANGED <<seqVars, limVars, handleVars>>

\* the timer of a suspended throttle fires: the dispatch is recorded and the
\* provider's search is invoked
ThrottleWake(k, so) ==
  /\ pc[k] \in {"ns_throttle", "sc_throttle"}
  /\ now >= wake[k]
  /\ IF pc[k] = "ns_throttle"
     THEN Apply(invokeNotslider(
            throttled(St, k, "notslider",
                      throttleResume("notslider", lastRequest, now), now), k))
     ELSE Apply(invokeSoundcloud(
            throttled(St, k, "soundcloud",
                      throttleResume("soundcloud", lastRequest, now), now),
            k, input[k], notsliderResult(trace[k]), so))
  /\ UNCHANGED <<now, input, maxConcurrent, lookupOutcomes, faults, outcomes>>
  /\ UNCHANGED <<seqVars, limVars, handleVars>>

\* one lookup attempt of NotSliderService.search completes with outcome o
NsAttempt(k, o, so) ==
  /\ pc[k] = "ns_fetch"
  /\ outcomes' = [outcomes EXCEPT ![k] = Append(@, o)]
  /\ LET r == searchAttempt(input[k], attempt[k], o)
     IN CASE r.kind = "return" ->
               Apply(afterNotslider(St, k, input[k], r.result, now, so))
          [] r.kind = "next" -> Apply([St EXCEPT !.attempt[k] = @ + 1])
          [] r.kind = "backoff" ->
               Apply([St EXCEPT !.pc[k] = "ns_backoff", !.wake[k] = now + r.delay])
          [] r.kind = "raise" ->
               Apply(catchTrack(logRaise(St, k, "notslider", r.message),
                                k, input[k], r.message))
  /\ UNCHANGED <<now, input, maxConcurrent, lookupOutcomes, faults>>
  /\ UNCHANGED <<seqVars, limVars, handleVars>>

\* the backoff timer of NotSliderService.search fires: the next attempt starts
BackoffWake(k) ==
  /\ pc[k] = "ns_backoff"
  /\ now >= wake[k]
  /\ Apply([St EXCEPT !.pc[k] = "ns_fetch", !.wake[k] = 0, !.attempt[k] = @ + 1])
  /\ UNCHANGED <<now, input, maxConcurrent, lookupOutcomes, faults, outcomes>>
  /\ UNCHANGED <<seqVars, limVars, handleVars>>

Next ==
  \/ Tick
  \/ StartBatch
  \/ ChunkJoin
  \/ \E k \in Tracks : \E so \in faults : ThrottleWake(k, so)
  \/ \E k \in Tracks : \E o \in lookupOutcomes : \E so \in faults :
       NsAttempt(k, o, so)
  \/ \E k \in Tracks : BackoffWake(k)

Spec == Init /\ [][Next]_vars

\* a short track list resolved one track at a time, with every outcome a
\* lookup can have
InitSearch == InitBatch(1..SearchTracks, {1}, AttemptOutcomes, {"none"})

SpecSearch == InitSearch /\ [][Next]_vars

(* --------------------- a provider that does not answer ----------------- *)
StallTracks == 2

\* The provider never answers the lookup or the redirect probe of the attempt
\* in flight for track k.  fetch is called with a method and headers only, no
\* signal and no timer, so the await never settles and no timer is pending.
NsStall(k) ==
  /\ pc[k] = "ns_fetch"
  /\ outcomes' = [outcomes EXCEPT ![k] = Append(@, "no_answer")]
  /\ Apply([St EXCEPT !.pc[k] = "ns_hung", !.wake[k] = 0])
  /\ UNCHANGED <<now, input, maxConcurrent, lookupOutcomes, faults>>
  /\ UNCHANGED <<seqVars, limVars, handleVars>>

InitStall ==
  InitBatch({StallTracks}, 1..StallTracks, {"http_error", "link_redirect_ok"},
            {"none"})

NextStall ==
  \/ Next
  \/ \E k \in Tracks : NsStall(k)

\* The event loop runs every callback that is ready and every timer that is
\* due, and the clock advances: no enabled step is postponed forever.
SpecStall == InitStall /\ [][NextStall]_vars /\ WF_vars(NextStall)

(* ------------------- every call and every wait completes --------------- *)
LiveTracks == 2

\* The clock of these runs: time passes while some timer is pending and not
\* yet due, with no horizon, so that every timer fires.
TimerTick ==
  /\ \E k \in Tracks : pc[k] \in {"ns_throttle", "sc_throttle", "ns_backoff"}
                       /\ wake[k] > now
  /\ now' = now + TickMs
  /\ UNCHANGED <<lastRequest, returns>>
  /\ UNCHANGED <<batchVars, limVars, handleVars>>
  /\ UNCHANGED seqVars

\* windows of one track and of two, and lookups that throw or find no link,
\* so that every track runs through its backoff and all three providers
LiveWindows == {1, 2}

LiveOutcomes == {"http_error", "no_link"}

InitLive == InitBatch(1..LiveTracks, LiveWindows, LiveOutcomes, {"none"})

NextLive ==
  \/ TimerTick
  \/ StartBatch
  \/ ChunkJoin
  \/ \E k \in Tracks : \E so \in faults : ThrottleWake(k, so)
  \/ \E k \in Tracks : \E o \in lookupOutcomes : \E so \in faults :
       NsAttempt(k, o, so)
  \/ \E k \in Tracks : BackoffWake(k)

\* Every lookup is answered, every timer fires, and the event loop runs the
\* continuation that is ready: no enabled step is postponed forever.
SpecLive == InitLive /\ [][NextLive]_vars /\ WF_vars(NextLive)

(* ------------------ a misconfigured MAX_CONCURRENT_SEARCHES ------------ *)
\* parseInt on the strings the environment is given here: a decimal integer,
\* or NaN for text that starts with no digit
parseInt(s) ==
  CASE s = "3" -> 3
    [] s = "0" -> 0
    [] s = "-1" -> -1
    [] OTHER -> NaN

\* loadWorkerConfig(env).MAX_CONCURRENT_SEARCHES; "" stands for an unset or
\* empty variable
loadWorkerConfig(env) == parseInt(IF env = "" THEN "3" ELSE env)

\* values of the variable that give no positive integer
MisconfiguredEnv == {"0", "-1", "abc"}

InitMisconfig ==
  InitBatch(1..MaxTracks, {loadWorkerConfig(env) : env \in MisconfiguredEnv},
            BatchOutcomes, {"none"})

SpecMisconfig == InitMisconfig /\ [][Next]_vars

(* ----------------- one caller throttling back-to-back ------------------ *)
\* limiter states a caller can find: no entry, or a dispatch recorded at or
\* before the current time
SeedTimes == {EpochMs - d * TickMs : d \in 0..(EpochMs \div TickMs)}

InitSeq ==
  /\ now = EpochMs
  /\ seqService \in {"notslider", "soundcloud"}
  /\ lastRequest \in {<< >>} \cup {SetLast(<< >>, seqService, t) : t \in SeedTimes}
  /\ input = << >>
  /\ maxConcurrent = 1
  /\ lookupOutcomes = {}
  /\ faults = {"none"}
  /\ mainPc = "off"
  /\ i = 0
  /\ results = << >>
  /\ pc = << >>
  /\ wake = << >>
  /\ attempt = << >>
  /\ settled = << >>
  /\ doneOrder = << >>
  /\ trace = << >>
  /\ outcomes = << >>
  /\ returns = NoReturns
  /\ seqPc = "ready"
  /\ seqWake = 0
  /\ seqLeft = SeqCalls
  /\ caller = << >>
  /\ job = NoJob
  /\ hPc = "off"
  /\ report = NoResult

\* the caller issues its next throttle call
SeqCall ==
  /\ seqPc = "ready"
  /\ seqLeft > 0
  /\ LET th == throttle(seqService, lastRequest, now)
     IN IF th.suspend
        THEN /\ seqPc' = "suspended"
             /\ seqWake' = th.wake
             /\ UNCHANGED <<lastRequest, returns, seqLeft>>
        ELSE /\ lastRequest' = th.lr
             /\ returns' = noteReturn(returns, seqService,
                                      LastOf(lastRequest, seqService), now)
             /\ seqLeft' = seqLeft - 1
             /\ UNCHANGED <<seqPc, seqWake>>
  /\ UNCHANGED <<now, seqService>>
  /\ UNCHANGED <<batchVars, limVars, handleVars>>

\* the timer of the suspended call fires and throttle returns
SeqWake ==
  /\ seqPc = "suspended"
  /\ now >= seqWake
  /\ lastRequest' = throttleResume(seqService, lastRequest, now)
  /\ returns' = noteReturn(returns, seqService, LastOf(lastRequest, seqService), now)
  /\ seqLeft' = seqLeft - 1
  /\ seqPc' = "ready"
  /\ seqWake' = 0
  /\ UNCHANGED <<now, seqService>>
  /\ UNCHANGED <<batchVars, limVars, handleVars>>

NextSeq == Tick \/ SeqCall \/ SeqWake

SpecSeq == InitSeq /\ [][NextSeq]_vars

(* ------------- several callers throttling on one RateLimiter ----------- *)
\* identifiers a caller may pass: two configured providers, one that is in
\* no table, and one that names a member of Object.prototype
CallerServices == {"notslider", "soundcloud", "youtube", "constructor"}

NotCalled == [pc |-> "idle", service |-> "", wake |-> 0, waited |-> FALSE, at |-> 0]

InitLimiter ==
  /\ now = EpochMs
  /\ lastRequest = << >>
  /\ input = << >>
  /\ maxConcurrent = 1
  /\ lookupOutcomes = {}
  /\ faults = {"none"}
  /\ mainPc = "off"
  /\ i = 0
  /\ results = << >>
  /\ pc = << >>
  /\ wake = << >>
  /\ attempt = << >>
  /\ settled = << >>
  /\ doneOrder = << >>
  /\ trace = << >>
  /\ outcomes = << >>
  /\ returns = NoReturns
  /\ seqService = "notslider"
  /\ seqPc = "off"
  /\ seqWake = 0
  /\ seqLeft = 0
  /\ caller = [c \in 1..Callers |-> NotCalled]
  /\ job = NoJob
  /\ hPc = "off"
  /\ report = NoResult

\* caller c calls throttle(service): it runs to its await or to its return
ThrottleCall(c, service) ==
  /\ caller[c].pc = "idle"
  /\ LET r == throttle(service, lastRequest, now)
     IN IF r.suspend
        THEN /\ caller' = [caller EXCEPT ![c] = [pc |-> "suspended",
                             service |-> service, wake |-> r.wake,
                             waited |-> TRUE, at |-> 0]]
             /\ UNCHANGED lastRequest
        ELSE /\ caller' = [caller EXCEPT ![c] = [pc |-> "returned",
                             service |-> service, wake |-> 0,
                             waited |-> FALSE, at |-> now]]
             /\ lastRequest' = r.lr
  /\ UNCHANGED <<now, returns>>
  /\ UNCHANGED <<batchVars, seqVars, handleVars>>

\* the timer of caller c fires: throttle records the dispatch and returns
ThrottleReturn(c) ==
  /\ caller[c].pc = "suspended"
  /\ now >= caller[c].wake
  /\ lastRequest' = throttleResume(caller[c].service, lastRequest, now)
  /\ caller' = [caller EXCEPT ![c].pc = "returned", ![c].wake = 0, ![c].at = now]
  /\ UNCHANGED <<now, returns>>
  /\ UNCHANGED <<batchVars, seqVars, handleVars>>

NextLimiter ==
  \/ Tick
  \/ \E c \in 1..Callers : \E service \in CallerServices : ThrottleCall(c, service)
  \/ \E c \in 1..Callers : ThrottleReturn(c)

SpecLimiter == InitLimiter /\ [][NextLimiter]_vars

(* ----------------------------- getCurrentDelay ------------------------- *)
\* a query that records the time of the call as throttle does
getCurrentDelayRecording(service, lr, t) ==
  LET config == configOf(service)
  IN IF config.kind = "undefined"
     THEN [value |-> 0, lr |-> lr]
     ELSE LET last == LastOf(lr, service)
              elapsed == t - last
          IN [value |-> IF config.kind = "config"
                        THEN Max(0, config.delayMs - elapsed)
                        ELSE NaN,
              lr |-> SetLast(lr, service, t)]

\* getCurrentDelay(service) at time t: the value it returns and the map it
\* leaves.  Math.max(0, undefined - elapsed) is NaN for a member inherited
\* from Object.prototype.
getCurrentDelay(service, lr, t) ==
  LET config == configOf(service)
  IN IF config.kind = "undefined"
     THEN [value |-> 0, lr |-> lr]
     ELSE LET last == LastOf(lr, service)
              elapsed == t - last
          IN [value |-> IF config.kind = "config"
                        THEN Max(0, config.delayMs - elapsed)
                        ELSE NaN,
              lr |-> lr]

QueryCallers == 2

InitQuery ==
  /\ now = EpochMs
  /\ lastRequest = << >>
  /\ input = << >>
  /\ maxConcurrent = 1
  /\ lookupOutcomes = {}
  /\ faults = {"none"}
  /\ mainPc = "off"
  /\ i = 0
  /\ results = << >>
  /\ pc = << >>
  /\ wake = << >>
  /\ attempt = << >>
  /\ settled = << >>
  /\ doneOrder = << >>
  /\ trace = << >>
  /\ outcomes = << >>
  /\ returns = NoReturns
  /\ seqService = "notslider"
  /\ seqPc = "off"
  /\ seqWake = 0
  /\ seqLeft = 0
  /\ caller = [c \in 1..QueryCallers |-> NotCalled]
  /\ job = NoJob
  /\ hPc = "off"
  /\ report = NoResult

\* getCurrentDelay(service) is called; the value it returned is kept
DelayQuery(service) ==
  /\ LET r == getCurrentDelay(service, lastRequest, now)
     IN /\ lastRequest' = r.lr
        /\ report' = [service |-> service, delay |-> r.value]
  /\ UNCHANGED <<now, returns, job, hPc>>
  /\ UNCHANGED <<batchVars, seqVars, limVars>>

NextQuery ==
  \/ Tick
  \/ \E c \in 1..QueryCallers : \E service \in CallerServices : ThrottleCall(c, service)
  \/ \E c \in 1..QueryCallers : ThrottleReturn(c)
  \/ \E service \in CallerServices : DelayQuery(service)

SpecQuery == InitQuery /\ [][NextQuery]_vars

(* --------------------------- calculateSummary -------------------------- *)
\* r.quality, "" standing for undefined
qualityOf(r) == IF "quality" \in DOMAIN r THEN r.quality ELSE ""

sourceOf(r) == IF "source" \in DOMAIN r THEN r.source ELSE ""

\* found.map(r => r.quality).filter(Boolean)
qualitiesOf(found) ==
  LET qs == [k \in 1..Len(found) |-> qualityOf(found[k])]
  IN SelectSeq(qs, LAMBDA q : q # "")

\* acc[quality] = (acc[quality] || 0) + 1: the tally is the list of entries
\* of the object, a new key going to the end
countQuality(acc, quality) ==
  IF \E e \in 1..Len(acc) : acc[e].quality = quality
  THEN [e \in 1..Len(acc) |->
          IF acc[e].quality = quality
          THEN [quality |-> quality, count |-> acc[e].count + 1]
          ELSE acc[e]]
  ELSE Append(acc, [quality |-> quality, count |-> 1])

\* qualities.reduce(countQuality, {})
RECURSIVE qualityCounts(_, _)
qualityCounts(acc, qualities) ==
  IF qualities = << >> THEN acc
  ELSE qualityCounts(countQuality(acc, Head(qualities)), Tail(qualities))

\* a reducer that keeps the earlier entry when the counts are equal
moreFrequentKeepsFirst(a, b) == IF a.count >= b.count THEN a ELSE b

\* (a, b) => qualityCounts[a[0]] > qualityCounts[b[0]] ? a : b
moreFrequent(a, b) == IF a.count > b.count THEN a ELSE b

\* entries.reduce(moreFrequent) with no initial value
RECURSIVE reduceEntries(_, _)
reduceEntries(a, rest) ==
  IF rest = << >> THEN a
  ELSE reduceEntries(moreFrequent(a, Head(rest)), Tail(rest))

\* a mode that falls back to the preferred tier when nothing was tallied
averageQualityOfPreferred(counts) ==
  IF Len(counts) > 0
  THEN reduceEntries(Head(counts), Tail(counts)).quality
  ELSE "320kbps"

averageQualityOf(counts) ==
  IF Len(counts) > 0
  THEN reduceEntries(Head(counts), Tail(counts)).quality
  ELSE "unknown"

\* providers with no hit left out of sourcesUsed
sourcesUsedOmitsZero(found) ==
  LET hits(src) == Len(SelectSeq(found, LAMBDA r : sourceOf(r) = src))
  IN [src \in {x \in {"notslider", "soundcloud", "youtube"} : hits(x) > 0} |->
        hits(src)]

sourcesUsed(found) ==
  [notslider |-> Len(SelectSeq(found, LAMBDA r : sourceOf(r) = "notslider")),
   soundcloud |-> Len(SelectSeq(found, LAMBDA r : sourceOf(r) = "soundcloud")),
   youtube |-> Len(SelectSeq(found, LAMBDA r : sourceOf(r) = "youtube"))]

calculateSummary(rs, processingTime) ==
  LET found == SelectSeq(rs, LAMBDA r : r.found)
      failed == SelectSeq(rs, LAMBDA r : ~r.found)
  IN [totalTracks |-> Len(rs),
      foundTracks |-> Len(found),
      failedTracks |-> Len(failed),
      processingTime |-> processingTime,
      sourcesUsed |-> sourcesUsed(found),
      averageQuality |-> averageQualityOf(qualityCounts(<< >>, qualitiesOf(found))),
      estimatedCost |-> "0.0008",
      modelUsed |-> "gpt-4o-mini"]

\* the results calculateSummary is applied to: not-found ones, and found ones
\* of every source with one of two quality tiers or none
SummaryQualities == {"320kbps", "256kbps", ""}

SummaryResults(k) ==
  {[track |-> Track(k), found |-> FALSE, error |-> <<"No 320kbps MP3 found">>]}
  \cup {[track |-> Track(k), found |-> TRUE, source |-> src,
          downloadUrl |-> FinalUrl, format |-> "mp3"] :
            src \in {"notslider", "soundcloud", "youtube"}}
  \cup {[track |-> Track(k), found |-> TRUE, source |-> src,
          downloadUrl |-> FinalUrl, quality |-> q, format |-> "mp3"] :
            src \in {"notslider", "soundcloud", "youtube"},
            q \in SummaryQualities \ {""}}

ResultLists(n) ==
  {rs \in [1..n -> UNION {SummaryResults(k) : k \in 1..n}] :
     \A k \in 1..n : rs[k].track = Track(k)}

InitSummary ==
  /\ now = EpochMs
  /\ lastRequest = << >>
  /\ input = << >>
  /\ maxConcurrent = 1
  /\ lookupOutcomes = {}
  /\ faults = {"none"}
  /\ mainPc = "off"
  /\ i = 0
  /\ results \in UNION {ResultLists(n) : n \in 0..SummaryLen}
  /\ pc = << >>
  /\ wake = << >>
  /\ attempt = << >>
  /\ settled = << >>
  /\ doneOrder = << >>
  /\ trace = << >>
  /\ outcomes = << >>
  /\ returns = NoReturns
  /\ seqService = "notslider"
  /\ seqPc = "off"
  /\ seqWake = 0
  /\ seqLeft = 0
  /\ caller = << >>
  /\ job = [skipLLMCleanup |-> FALSE, startTime |-> EpochMs]
  /\ hPc = "summarize"
  /\ report = NoResult

\* a summary that orders the list it is given in place, found results first
SummarizeSorting ==
  /\ hPc = "summarize"
  /\ report' = [summary |-> calculateSummary(results, now - job.startTime)]
  /\ hPc' = "summarized"
  /\ results' = SelectSeq(results, LAMBDA r : r.found)
                  \o SelectSeq(results, LAMBDA r : ~r.found)
  /\ UNCHANGED <<now, lastRequest, returns, job>>
  /\ UNCHANGED <<input, maxConcurrent, lookupOutcomes, faults, mainPc, i, pc,
                 wake, attempt, settled, doneOrder, trace, outcomes>>
  /\ UNCHANGED <<seqVars, limVars>>

\* calculateSummary is applied to the results
Summarize ==
  /\ hPc = "summarize"
  /\ report' = [summary |-> calculateSummary(results, now - job.startTime)]
  /\ hPc' = "summarized"
  /\ UNCHANGED <<now, lastRequest, returns, job>>
  /\ UNCHANGED <<batchVars, seqVars, limVars>>

NextSummary == Summarize

SpecSummary == InitSummary /\ [][NextSummary]_vars

(* -------------------------------- handle ------------------------------- *)
\* Text that reaches btoa is a sequence of code points.
\* "Mix" and "Mix" followed by an en dash and "1"
MixTitles == {<<77, 105, 120>>, <<77, 105, 120, 8211, 49>>}

\* btoa(text): InvalidCharacterError when a code point is above U+00FF
btoa(text) ==
  IF \E c \in 1..Len(text) : text[c] > 255
  THEN [kind |-> "throw", message |-> "InvalidCharacterError"]
  ELSE [kind |-> "return", value |-> [base64Of |-> text]]

\* lines.join of ScriptBuilder.build: the header with the mix title, then a
\* line per result ("w" for a wget line, "e" for an echo line)
scriptContent(rs, mixTitle) ==
  <<35, 32>> \o mixTitle
  \o [k \in 1..Len(rs) |-> IF rs[k].found THEN 119 ELSE 101]

\* ScriptBuilder.build
build(rs, mixTitle) ==
  LET encoded == btoa(scriptContent(rs, mixTitle))
  IN IF encoded.kind = "throw"
     THEN encoded
     ELSE [kind |-> "return",
           value |-> [scriptContent |-> encoded.value, mixTitle |-> mixTitle,
                      trackCount |-> Len(rs)]]

\* generateWarnings; the success rate is NaN for an empty list and then
\* below nothing
generateWarnings(rs, skipLLMCleanup) ==
  LET foundCount == Len(SelectSeq(rs, LAMBDA r : r.found))
      notsliderCount == Len(SelectSeq(rs, LAMBDA r : sourceOf(r) = "notslider"))
  IN (IF Len(rs) > 0 /\ foundCount * 100 < 50 * Len(rs)
      THEN <<"Low success rate">> ELSE << >>)
     \o (IF skipLLMCleanup THEN <<"LLM cleanup was skipped">> ELSE << >>)
     \o (IF notsliderCount = 0 THEN <<"No tracks found on NotSlider">> ELSE << >>)

\* The argument maxTracks: absent, or a number.  Numbers are counted in
\* halves so that 0.5 can be passed: halves = 3 is 1.5.
NoMaxTracks == [given |-> FALSE]

MaxTracksOf(halves) == [given |-> TRUE, halves |-> halves]

\* Validation.validateMaxTracks: undefined for an absent argument, an error
\* for a number that is not positive or above 100, Math.floor of it otherwise
validateMaxTracks(maxTracks) ==
  IF ~maxTracks.given
  THEN [kind |-> "return", defined |-> FALSE, value |-> 0]
  ELSE IF maxTracks.halves <= 0 \/ maxTracks.halves > 2 * 100
       THEN [kind |-> "throw", code |-> "INVALID_URL"]
       ELSE [kind |-> "return", defined |-> TRUE, value |-> maxTracks.halves \div 2]

\* step 5 of handle: rawTracks.slice(0, validatedMaxTracks) when the limit is
\* truthy and smaller than the number of raw tracks; the number of raw tracks
\* that remain
limitTracks(raw, validatedMaxTracks) ==
  IF /\ validatedMaxTracks.defined
     /\ validatedMaxTracks.value # 0
     /\ raw > validatedMaxTracks.value
  THEN validatedMaxTracks.value
  ELSE raw

\* Certainty is counted in hundredths: 30 is 0.3.
\* step 6 of handle without the cleanup: the k-th raw track as a CleanedTrack
rawToCleaned(k) == [index |-> k, certainty |-> 30, isValid |-> TRUE]

\* LLMService.validateAndTransform on an array of items with the required
\* fields: the certainty is clamped to [0, 1], or 0.5 when the item has no
\* numeric certainty, and the flag is derived from it
validateAndTransform(rawResponse) ==
  [k \in 1..Len(rawResponse) |->
     LET item == rawResponse[k]
         certainty == IF "certainty" \in DOMAIN item
                      THEN Max(0, Min(100, item.certainty))
                      ELSE 50
     IN [index |-> item.index, certainty |-> certainty,
         isValid |-> certainty >= 50]]

\* certainties the model's answer may carry: below the range, low, the
\* threshold, above the range
LlmCertainties == {-20, 49, 50, 150}

\* answers of the cleanup: n items numbered from 1, all without a certainty
\* or all with the same one
LlmAnswers(n) ==
  {[k \in 1..n |-> [index |-> k]]}
    \cup {[k \in 1..n |-> [index |-> k, certainty |-> c]] : c \in LlmCertainties}

\* values of the argument maxTracks: absent, -1, 0.5, 1, 2 and 100.5
MaxTracksArgs ==
  {NoMaxTracks} \cup {MaxTracksOf(h) : h \in {-2, 1, 2, 4, 201}}

\* handle from the extraction of the tracks to the call of
\* searchTracksWithWaterfall: raw tracks were extracted, and the cleanup
\* either is skipped, fails, or returns llmCount tracks
tracksToSearch(maxTracks, raw, skipLLMCleanup, llmFails, llmItems) ==
  LET validatedMaxTracks == validateMaxTracks(maxTracks)
  IN IF validatedMaxTracks.kind = "throw"
     THEN [kind |-> "throw", code |-> validatedMaxTracks.code]
     ELSE IF raw = 0
     THEN [kind |-> "throw", code |-> "NO_TRACKS_FOUND"]
     ELSE IF ~skipLLMCleanup
          THEN IF llmFails
               THEN [kind |-> "throw", code |-> "LLM_PARSE_FAILED"]
               ELSE [kind |-> "search", tracks |-> validateAndTransform(llmItems)]
          ELSE [kind |-> "search",
                tracks |-> [k \in 1..limitTracks(raw, validatedMaxTracks) |->
                              rawToCleaned(k)]]

\* handle after searchTracksWithWaterfall settled: the result it returns, or
\* the ServiceError its catch block throws for any other error
handleResult(rs, rejected, mixTitle, skipLLMCleanup, processingTime) ==
  LET script == build(rs, mixTitle)
  IN IF rejected \/ script.kind = "throw"
     THEN [thrown |-> "YOUTUBE_FETCH_FAILED"]
     ELSE [success |-> TRUE,
           downloadScript |-> script.value,
           qualityReport |-> rs,
           summary |-> calculateSummary(rs, processingTime),
           failedTracks |->
             LET failed == SelectSeq(rs, LAMBDA r : ~r.found)
             IN [k \in 1..Len(failed) |-> failed[k].track],
           warnings |-> generateWarnings(rs, skipLLMCleanup)]

InitHandle ==
  /\ now = EpochMs
  /\ lastRequest = << >>
  /\ input = << >>
  /\ maxConcurrent = loadWorkerConfig("")
  /\ lookupOutcomes = BatchOutcomes
  /\ faults = {"none"}
  /\ mainPc = "off"
  /\ i = 0
  /\ results = << >>
  /\ pc = << >>
  /\ wake = << >>
  /\ attempt = << >>
  /\ settled = << >>
  /\ doneOrder = << >>
  /\ trace = << >>
  /\ outcomes = << >>
  /\ returns = NoReturns
  /\ seqService = "notslider"
  /\ seqPc = "off"
  /\ seqWake = 0
  /\ seqLeft = 0
  /\ caller = << >>
  /\ job = NoJob
  /\ hPc = "ready"
  /\ report = NoResult

\* handle is called and runs to the dispatch of the first batch, or throws
HandleCall(maxTracks, skipLLMCleanup, raw, llmFails, llmItems) ==
  /\ hPc = "ready"
  /\ job' = [skipLLMCleanup |-> skipLLMCleanup, startTime |-> now,
             maxTracks |-> maxTracks]
  /\ LET h == tracksToSearch(maxTracks, raw, skipLLMCleanup, llmFails, llmItems)
     IN IF h.kind = "throw"
        THEN /\ hPc' = "threw"
             /\ report' = [thrown |-> h.code]
             /\ UNCHANGED <<lastRequest, returns, input, mainPc, i, results, pc,
                            wake, attempt, settled, doneOrder, trace, outcomes>>
        ELSE /\ hPc' = "searching"
             /\ input' = h.tracks
             /\ outcomes' = [k \in 1..Len(h.tracks) |-> << >>]
             /\ Apply(loopStepOn(h.tracks,
                   [St EXCEPT !.i = 0, !.results = << >>,
                              !.pc = [k \in 1..Len(h.tracks) |-> "pending"],
                              !.wake = [k \in 1..Len(h.tracks) |-> 0],
                              !.attempt = [k \in 1..Len(h.tracks) |-> 0],
                              !.settled = [k \in 1..Len(h.tracks) |-> NoResult],
                              !.trace = [k \in 1..Len(h.tracks) |-> << >>]],
                   now))
             /\ UNCHANGED report
  /\ UNCHANGED <<now, maxConcurrent, lookupOutcomes, faults>>
  /\ UNCHANGED <<seqVars, limVars>>

\* searchTracksWithWaterfall settled: handle builds the script, the summary
\* and the result, and returns or throws
HandleReturn(mixTitle) ==
  /\ hPc = "searching"
  /\ mainPc \in {"returned", "failed"}
  /\ report' = handleResult(results, mainPc = "failed", mixTitle,
                            job.skipLLMCleanup, now - job.startTime)
  /\ hPc' = IF "thrown" \in DOMAIN report' THEN "threw" ELSE "reported"
  /\ UNCHANGED <<now, lastRequest, returns, job>>
  /\ UNCHANGED <<batchVars, seqVars, limVars>>

NextHandle ==
  \/ Tick
  \/ \E skipLLMCleanup, llmFails \in BOOLEAN :
       \E maxTracks \in MaxTracksArgs :
         \E raw, llmCount \in 0..HandleTracks :
           \E llmItems \in LlmAnswers(llmCount) :
             HandleCall(maxTracks, skipLLMCleanup, raw, llmFails, llmItems)
  \/ \E mixTitle \in MixTitles : HandleReturn(mixTitle)
  \/ ChunkJoin
  \/ \E k \in Tracks : \E so \in faults : ThrottleWake(k, so)
  \/ \E k \in Tracks : \E o \in lookupOutcomes : \E so \in faults :
       NsAttempt(k, o, so)
  \/ \E k \in Tracks : BackoffWake(k)

SpecHandle == InitHandle /\ [][NextHandle]_vars

\* loadWorkerConfig: REQUEST_TIMEOUT_MS of a deployment that sets the variable
\* to "1000" (the default is 25000)
RequestTimeoutMs == 1000

(* ======================= properties of the pipeline ==================== *)
Providers == {"notslider", "soundcloud", "youtube"}

Priority == [notslider |-> 1, soundcloud |-> 2, youtube |-> 3]

InFlight == {k \in Tracks : pc[k] \notin {"pending", "done", "rejected"}}

\* positions of the trace of track k holding an event of kind ev
Events(k, ev) == {p \in 1..Len(trace[k]) : trace[k][p].ev = ev}

FoundAt(k) == {p \in Events(k, "return") : trace[k][p].result.found}

Raised(k) == Events(k, "raise") # {}

(* C1: for each recognized provider, no two returns of throttle on one     *)
(* RateLimiter are less than the provider's minimum delay apart, whatever   *)
(* the interleaving of the callers.                                         *)
C1_DispatchSpacing ==
  \A s \in DOMAIN limits : returns[s].n >= 2 => returns[s].minGap >= limits[s]

(* C2: the results pushed so far are the results of the first tracks of the *)
(* input, in input order, and when the batch returns there is one result    *)
(* per input track: output[k].track = input[k] for every k.                 *)
C2_OutputMatchesInput ==
  /\ Len(results) <= Len(input)
  /\ \A k \in 1..Len(results) : results[k].track = input[k]
  /\ mainPc = "returned" => Len(results) = Len(input)

\* a batch of several tracks returned although a later track settled first
C2_Witness ==
  /\ mainPc = "returned"
  /\ Len(input) >= 2
  /\ \E a, b \in 1..Len(doneOrder) :
       a < b /\ doneOrder[a] > doneOrder[b]
       /\ (doneOrder[a] - 1) \div maxConcurrent = (doneOrder[b] - 1) \div maxConcurrent

(* C3: the number of searchSingleTrack calls that have started and not yet  *)
(* settled never exceeds maxConcurrent.                                     *)
C3_InFlightBounded == Cardinality(InFlight) <= maxConcurrent

\* the window is full while more tracks than the window are waiting
C3_Witness ==
  /\ Len(input) > maxConcurrent
  /\ Cardinality(InFlight) = maxConcurrent
  /\ maxConcurrent >= 2

(* C4: per track the providers are invoked in the order notslider,          *)
(* soundcloud, youtube; a provider is invoked only after every provider of  *)
(* higher priority returned not-found, and nothing is invoked after a       *)
(* provider returned found.                                                 *)
C4_WaterfallOrder ==
  \A k \in Tracks :
    \A p \in Events(k, "call") :
      /\ \A q \in Events(k, "call") :
           q < p => Priority[trace[k][q].provider] < Priority[trace[k][p].provider]
      /\ \A pr \in Providers :
           Priority[pr] < Priority[trace[k][p].provider] =>
             \E q \in Events(k, "return") :
               q < p /\ trace[k][q].provider = pr /\ ~trace[k][q].result.found
      /\ \A q \in FoundAt(k) : p < q

\* one track stopped at the primary provider, another went through all three
C4_Witness ==
  /\ \E k \in Tracks :
       pc[k] = "done" /\ FoundAt(k) # {} /\ Cardinality(Events(k, "call")) = 1
  /\ \E k \in Tracks :
       pc[k] = "done" /\ Cardinality(Events(k, "call")) = 3

(* C5: a provider call that raises gives its track a not-found result that  *)
(* carries the error text; no promise rejects and the batch does not fail;  *)
(* when the batch returns every track has its result, and the result of     *)
(* each track that met no raise is decided by what its own providers        *)
(* returned.                                                                *)
C5_FailureContained ==
  /\ mainPc # "failed"
  /\ \A k \in Tracks :
       /\ pc[k] # "rejected"
       /\ Raised(k) =>
            /\ pc[k] = "done"
            /\ ~settled[k].found
            /\ settled[k].track = input[k]
            /\ \A p \in Events(k, "raise") :
                 IsSubstring(<<trace[k][p].message>>, settled[k].error)
  /\ mainPc = "returned" =>
       /\ Len(results) = Len(input)
       /\ \A k \in Tracks :
            /\ results[k].track = input[k]
            /\ ~Raised(k) =>
                 /\ results[k].found = (FoundAt(k) # {})
                 /\ \A p \in FoundAt(k) : results[k] = trace[k][p].result
                 /\ FoundAt(k) = {} =>
                      \A p \in Events(k, "return") :
                        IsSubstring(trace[k][p].result.error, results[k].error)

\* the batch returned; one track met a raising provider and a sibling of the
\* same chunk was found
C5_Witness ==
  /\ mainPc = "returned"
  /\ \E k, j \in Tracks :
       /\ k # j
       /\ Raised(k)
       /\ results[j].found
       /\ (k - 1) \div maxConcurrent = (j - 1) \div maxConcurrent

C7_FirstFoundVerbatim ==
  \A k \in Tracks :
    pc[k] = "done" =>
      /\ settled[k].found = (FoundAt(k) # {})
      /\ FoundAt(k) # {} =>
           LET best == CHOOSE p \in FoundAt(k) :
                         \A q \in FoundAt(k) :
                           Priority[trace[k][p].provider] <= Priority[trace[k][q].provider]
           IN /\ settled[k] = trace[k][best].result
              /\ settled[k].source = trace[k][best].provider

\* one track was found by the primary provider and another by none
C7_Witness ==
  /\ \E k \in Tracks : pc[k] = "done" /\ FoundAt(k) # {}
  /\ \E k \in Tracks :
       pc[k] = "done" /\ FoundAt(k) = {} /\ Cardinality(Events(k, "return")) = 3

(* C8: when every provider returned not-found for a track, its result is    *)
(* not-found and its error contains the error of each provider.             *)
C8_ErrorsConcatenated ==
  \A k \in Tracks :
    (pc[k] = "done" /\ FoundAt(k) = {} /\ ~Raised(k)) =>
      /\ ~settled[k].found
      /\ \A pr \in Providers :
           \E p \in Events(k, "return") :
             /\ trace[k][p].provider = pr
             /\ Len(trace[k][p].result.error) > 0
             /\ IsSubstring(trace[k][p].result.error, settled[k].error)

\* all three providers returned not-found, the primary after a thrown error
C8_Witness ==
  \E k \in Tracks :
    /\ pc[k] = "done"
    /\ FoundAt(k) = {}
    /\ Cardinality(Events(k, "return")) = 3
    /\ outcomes[k][Len(outcomes[k])] = "http_error"

(* C9: every result of the batch output has found = true iff it has a       *)
(* non-empty downloadUrl, has a source iff found, and a source is one of    *)
(* the provider identifiers.                                                *)
C9_ResultShape ==
  \A k \in 1..Len(results) :
    LET r == results[k]
    IN /\ r.found = ("downloadUrl" \in DOMAIN r /\ r.downloadUrl # "")
       /\ r.found = ("source" \in DOMAIN r)
       /\ "source" \in DOMAIN r => r.source \in Providers
       /\ "downloadUrl" \in DOMAIN r => r.found

\* the output holds a result found on a link whose redirect probe failed
C9_Witness ==
  /\ mainPc = "returned"
  /\ \E k \in 1..Len(results) :
       results[k].found /\ results[k].downloadUrl = CandidateUrl

(* C10: a caller that issues throttle calls for one provider one after the  *)
(* other, each awaited before the next, sees the m-th call return at least  *)
(* (m - 1) * minDelay after the first returned, whatever the limiter held   *)
(* at the start.                                                            *)
C10_BackToBack ==
  LET rt == returns[seqService]
  IN rt.n >= 1 =>
       LastOf(lastRequest, seqService) - rt.first >= (rt.n - 1) * limits[seqService]

\* all calls were issued with no delay in between: exactly (N-1) * minDelay
C10_Witness ==
  /\ seqPc = "ready"
  /\ seqLeft = 0
  /\ returns[seqService].n = SeqCalls
  /\ SeqCalls >= 3
  /\ now - returns[seqService].first = (SeqCalls - 1) * limits[seqService]

(* C11: throttle calls for distinct providers do not wait on each other:    *)
(* how long throttle(p) suspends is decided by p's own recorded dispatch    *)
(* and minimum delay alone, whatever calls for another provider are pending *)
(* or have completed, and a step of throttle(p) leaves the recorded         *)
(* dispatch of every other provider as it was.                              *)
C11_ProvidersIndependent ==
  [][\A c \in DOMAIN caller :
       (caller'[c] # caller[c] /\ caller'[c].service \in DOMAIN limits) =>
         LET p == caller'[c].service
             own == IF p \in DOMAIN lastRequest THEN lastRequest[p] ELSE 0
             remaining == limits[p] - (now - own)
         IN /\ caller[c].pc = "idle" =>
                 IF remaining > 0
                 THEN caller'[c].pc = "suspended" /\ caller'[c].wake = now + remaining
                 ELSE caller'[c].pc = "returned"
            /\ DOMAIN lastRequest' \ {p} = DOMAIN lastRequest \ {p}
            /\ \A q \in DOMAIN lastRequest \ {p} : lastRequest'[q] = lastRequest[q]
    ]_vars

\* a call for one provider returned without waiting at a time when a call for
\* another provider had completed and a further one was still pending
C11_Witness ==
  \E c, d \in DOMAIN caller :
    /\ caller[c].pc = "returned" /\ ~caller[c].waited /\ caller[c].at = now
    /\ caller[c].service \in DOMAIN limits
    /\ caller[d].pc = "suspended" /\ caller[d].wake <= now
    /\ caller[d].service \in DOMAIN limits
    /\ caller[d].service # caller[c].service
    /\ caller[d].service \in DOMAIN lastRequest

(* C12: two callers of throttle for one provider never both take the        *)
(* no-wait path and return less than the provider's minimum delay apart.    *)
C12_NoWaitExclusive ==
  \A c, d \in DOMAIN caller :
    (/\ c # d
     /\ caller[c].pc = "returned" /\ caller[d].pc = "returned"
     /\ caller[c].service = caller[d].service
     /\ caller[c].service \in DOMAIN limits
     /\ ~caller[c].waited /\ ~caller[d].waited
     /\ caller[c].at <= caller[d].at)
    => caller[d].at - caller[c].at >= limits[caller[c].service]

\* two calls took the no-wait path while a third call for the same provider
\* stayed suspended
C12_Witness ==
  \E c, d, e \in DOMAIN caller :
    /\ c # d
    /\ caller[c].pc = "returned" /\ caller[d].pc = "returned"
    /\ ~caller[c].waited /\ ~caller[d].waited
    /\ caller[c].service = caller[d].service
    /\ caller[c].service \in DOMAIN limits
    /\ caller[e].pc = "suspended" /\ caller[e].service = caller[c].service

(* C19: throttle called with an identifier that is not a configured         *)
(* provider is a no-op: the call returns without suspending and the map of  *)
(* recorded dispatch times is left exactly as it was, with no entry added.  *)
C19_UnknownIsNoOp ==
  [][\A c \in DOMAIN caller :
       (caller[c].pc = "idle" /\ caller'[c].pc # "idle"
        /\ caller'[c].service \notin DOMAIN limits) =>
         /\ caller'[c].pc = "returned"
         /\ ~caller'[c].waited
         /\ lastRequest' = lastRequest
    ]_vars

(* C13: while one track is resolved, every provider search that is invoked  *)
(* (notslider, soundcloud and youtube alike) comes after a throttle call    *)
(* for that same provider has returned, with no other search in between.    *)
C13_ThrottleBeforeSearch ==
  \A k \in Tracks :
    \A p \in Events(k, "call") :
      \E q \in Events(k, "throttle") :
        /\ q < p
        /\ trace[k][q].provider = trace[k][p].provider
        /\ \A x \in Events(k, "call") : ~(q < x /\ x < p)

(* C14: when MAX_CONCURRENT_SEARCHES is no positive integer, the batch      *)
(* fails with an error before anything is dispatched: it never waits in     *)
(* its loop, never returns a result list, and no track meets a throttle     *)
(* call or a provider request.                                              *)
C14_FailsFast ==
  (IsNaN(maxConcurrent) \/ maxConcurrent <= 0) =>
    /\ mainPc \in {"idle", "failed"}
    /\ \A k \in Tracks : pc[k] = "pending" /\ trace[k] = << >>

\* positions of the found results, the tiers they carry, how often a tier
\* occurs and where it occurs first
FoundPositions == {k \in 1..Len(results) : results[k].found}

Tiers == {qualityOf(results[k]) : k \in FoundPositions} \ {""}

TierCount(q) == Cardinality({k \in FoundPositions : qualityOf(results[k]) = q})

FirstSeen(q) ==
  CHOOSE k \in FoundPositions :
    /\ qualityOf(results[k]) = q
    /\ \A j \in FoundPositions : qualityOf(results[j]) = q => k <= j

(* C17 as stated: averageQuality is a tier of highest count among the      *)
(* found results, and among tiers of equal highest count it is the one      *)
(* that occurs first in the result list.                                    *)
C17_ModalFirstOnTie ==
  (hPc = "summarized" /\ Tiers # {}) =>
    LET a == report.summary.averageQuality
    IN /\ a \in Tiers
       /\ \A q \in Tiers :
            /\ TierCount(q) <= TierCount(a)
            /\ TierCount(q) = TierCount(a) => FirstSeen(a) <= FirstSeen(q)

(* C17 amended: averageQuality is a tier of highest count among the found   *)
(* results, and among tiers of equal highest count it is the one whose      *)
(* first occurrence in the result list comes last.                          *)
C17_ModalLastOnTie ==
  (hPc = "summarized" /\ Tiers # {}) =>
    LET a == report.summary.averageQuality
    IN /\ a \in Tiers
       /\ \A q \in Tiers :
            /\ TierCount(q) <= TierCount(a)
            /\ TierCount(q) = TierCount(a) => FirstSeen(q) <= FirstSeen(a)

\* two tiers tie for the highest count and the summary names the later one
C17_Witness ==
  /\ hPc = "summarized"
  /\ \E q \in Tiers :
       /\ q # report.summary.averageQuality
       /\ TierCount(q) = TierCount(report.summary.averageQuality)
       /\ FirstSeen(q) < FirstSeen(report.summary.averageQuality)

(* C18: totalTracks is the number of results, foundTracks the number of     *)
(* found ones, failedTracks their difference, and sourcesUsed has an entry  *)
(* for each of the three providers, zero included, that counts the found    *)
(* results of that provider.                                                *)
C18_SummaryCounts ==
  hPc = "summarized" =>
    LET sm == report.summary
    IN /\ sm.totalTracks = Len(results)
       /\ sm.foundTracks = Cardinality(FoundPositions)
       /\ sm.failedTracks = sm.totalTracks - sm.foundTracks
       /\ DOMAIN sm.sourcesUsed = Providers
       /\ \A src \in Providers :
            sm.sourcesUsed[src] =
              Cardinality({k \in FoundPositions : sourceOf(results[k]) = src})

\* a summary of found and failed results in which one provider has several
\* hits and another has none
C18_Witness ==
  /\ hPc = "summarized"
  /\ report.summary.failedTracks >= 1
  /\ \E a, b \in Providers :
       report.summary.sourcesUsed[a] >= 2 /\ report.summary.sourcesUsed[b] = 0

\* the chunk of track k when the input is cut into runs of maxConcurrent
ChunkOf(k) == (k - 1) \div maxConcurrent

(* C16: the input is cut into contiguous chunks of maxConcurrent tracks;    *)
(* the members of a chunk are started together, and no track of a chunk is  *)
(* started before every track of all earlier chunks has settled.            *)
C16_ChunkBarrier ==
  \A k \in Tracks :
    pc[k] # "pending" =>
      \A j \in Tracks :
        /\ ChunkOf(j) = ChunkOf(k) => pc[j] # "pending"
        /\ ChunkOf(j) < ChunkOf(k) => pc[j] \in {"done", "rejected"}

\* a member of a chunk has settled and another is still being resolved,
\* while the first track of the next chunk has not been started
C16_Witness ==
  \E k, j, n \in Tracks :
    /\ ChunkOf(k) = ChunkOf(j)
    /\ pc[k] = "done"
    /\ j \in InFlight
    /\ ChunkOf(n) = ChunkOf(k) + 1
    /\ pc[n] = "pending"

(* C15: when the track list handed to the resolution is empty, because no   *)
(* raw track was extracted or because the cleanup returned an empty list,   *)
(* handle throws instead of searching and reporting, and no provider is     *)
(* called.                                                                  *)
C15_EmptyListFailsFast ==
  (hPc \in {"reported", "threw"} /\ input = << >>) =>
    /\ hPc = "threw"
    /\ \A k \in Tracks : trace[k] = << >>

(* C20: a run in which every track resolved to not-found ends with a        *)
(* report, not with an error: success is true, foundTracks is 0, and the    *)
(* report has one not-found entry with an error text per track.             *)
C20_ZeroSuccessesReported ==
  (/\ hPc \in {"reported", "threw"}
   /\ mainPc = "returned"
   /\ Len(results) >= 1
   /\ \A k \in 1..Len(results) : ~results[k].found) =>
    /\ hPc = "reported"
    /\ report.success
    /\ report.summary.foundTracks = 0
    /\ Len(report.qualityReport) = Len(input)
    /\ \A k \in 1..Len(input) :
         /\ report.qualityReport[k].track = input[k]
         /\ ~report.qualityReport[k].found
         /\ Len(report.qualityReport[k].error) > 0

\* the fixed message of each placeholder provider
StubMessage ==
  [soundcloud |-> <<"SoundCloud integration not yet implemented">>,
   youtube |-> <<"yt-dlp service not yet implemented">>]

\* positions that the step appends to the trace of track k
Appended(k) == (Len(trace[k]) + 1)..Len(trace'[k])

\* a step in which a placeholder provider returned for track k
StubReturned(k) ==
  \E p \in Appended(k) :
    trace'[k][p].ev = "return" /\ trace'[k][p].provider \in DOMAIN StubMessage

BatchStarted == returns["notslider"].n > 0

Deadline == returns["notslider"].first + RequestTimeoutMs

(* C21: once the deadline of the request has elapsed, no step starts a      *)
(* track of a further chunk, no step issues a lookup for a track in flight, *)
(* and the results pushed before the deadline stay in the list.             *)
C21_DeadlineStopsWork ==
  [][(BatchStarted /\ now > Deadline) =>
       /\ \A k \in Tracks : pc[k] = "pending" => pc'[k] = "pending"
       /\ outcomes' = outcomes
       /\ Len(results') >= Len(results)
       /\ \A k \in 1..Len(results) : results'[k] = results[k]]_vars

\* NotSliderService.search has returned for track k
NsReturned(k) ==
  \E p \in Events(k, "return") : trace[k][p].provider = "notslider"

(* C22: a primary-provider search that has a lookup in flight eventually    *)
(* returns, also when the provider never answers a lookup or a redirect     *)
(* probe: the request is ended by its timeout.                              *)
C22_SearchReturns ==
  \A k \in 1..StallTracks : (pc[k] = "ns_fetch") ~> NsReturned(k)

\* the step in which the lookup in flight for track k completes with outcome o
Completes(k, o) ==
  pc[k] = "ns_fetch" /\ outcomes'[k] = Append(outcomes[k], o)

NoCandidate == {"unparseable", "no_link"}

Thrown == {"network_error", "http_error", "body_error"}

(* C24: when attempt a of the primary search completes without a candidate  *)
(* and attempts remain, the search suspends for 1000 * 2^a ms before it     *)
(* issues the next lookup.                                                  *)
C24_BackoffAfterNoCandidate ==
  [][\A k \in Tracks : \A o \in NoCandidate :
       (Completes(k, o) /\ attempt[k] + 1 < retryAttempts) =>
         /\ pc'[k] = "ns_backoff"
         /\ wake'[k] = now + BackoffBaseMs * Pow2(attempt[k])]_vars

Candidate == {"link_redirect_ok", "link_redirect_failed"}

\* the result NotSliderService.search returned for track k
NsResult(k) ==
  trace[k][CHOOSE p \in Events(k, "return") :
             trace[k][p].provider = "notslider"].result

LastOutcome(k) == outcomes[k][Len(outcomes[k])]

(* C26: one primary search completes at most retryAttempts = 2 lookups; a   *)
(* lookup that was followed by another one produced no candidate; and once  *)
(* a lookup produced a candidate the search has returned found = true, with *)
(* no further lookup.                                                       *)
C26_LookupsBounded ==
  \A k \in Tracks :
    /\ Len(outcomes[k]) <= retryAttempts
    /\ attempt[k] < retryAttempts
    /\ \A a \in 1..(Len(outcomes[k]) - 1) : outcomes[k][a] \notin Candidate
    /\ (Len(outcomes[k]) > 0 /\ LastOutcome(k) \in Candidate) =>
         /\ pc[k] \notin {"ns_fetch", "ns_backoff"}
         /\ NsReturned(k)
         /\ NsResult(k).found
    /\ (NsReturned(k) /\ NsResult(k).found) => LastOutcome(k) \in Candidate

\* a search found the track on its second lookup
C26_Witness ==
  \E k \in Tracks :
    /\ Len(outcomes[k]) = 2
    /\ outcomes[k][2] \in Candidate
    /\ NsReturned(k)
    /\ NsResult(k).found

C28_ProbeFailureFallsBack ==
  \A k \in Tracks :
    \A a \in 1..Len(outcomes[k]) :
      outcomes[k][a] = "link_redirect_failed" =>
        /\ a = Len(outcomes[k])
        /\ pc[k] \notin {"ns_fetch", "ns_backoff"}
        /\ NsReturned(k)
        /\ NsResult(k) =
             [track |-> input[k], found |-> TRUE, source |-> "notslider",
              downloadUrl |-> CandidateUrl, quality |-> "320kbps",
              format |-> "mp3"]

\* the probe failed on the second lookup of a search, after a first lookup
\* that threw
C28_Witness ==
  \E k \in Tracks :
    /\ Len(outcomes[k]) = 2
    /\ outcomes[k][1] \in Thrown
    /\ outcomes[k][2] = "link_redirect_failed"
    /\ pc[k] = "done"
    /\ settled[k].downloadUrl = CandidateUrl

(* C29: a call of throttle for a configured provider, made when elapsed ms  *)
(* have passed since the dispatch recorded for it, sets a timer of exactly  *)
(* delayMs - elapsed and suspends when elapsed < delayMs, and otherwise     *)
(* (also when nothing is recorded) returns in the same step; a call that    *)
(* returns, at once or when its timer has fired, records the time of its    *)
(* return as the provider's last dispatch.                                  *)
C29_ThrottleWaitsRemainder ==
  [][\A c \in DOMAIN caller :
       /\ (caller[c].pc = "idle" /\ caller'[c].pc # "idle"
           /\ caller'[c].service \in DOMAIN limits) =>
            LET p == caller'[c].service
                elapsed == now - LastOf(lastRequest, p)
            IN IF elapsed < limits[p]
               THEN /\ caller'[c].pc = "suspended"
                    /\ caller'[c].wake = now + (limits[p] - elapsed)
                    /\ lastRequest' = lastRequest
               ELSE /\ caller'[c].pc = "returned"
                    /\ ~caller'[c].waited
                    /\ lastRequest' = SetLast(lastRequest, p, now)
       /\ (caller[c].pc = "suspended" /\ caller'[c].pc # "suspended") =>
            /\ caller'[c].pc = "returned"
            /\ now >= caller[c].wake
            /\ lastRequest' = SetLast(lastRequest, caller[c].service, now)
    ]_vars

\* one call is suspended for a part of the delay only, and another one has
\* returned from its suspension and left its return time in the map
C29_Witness ==
  \E c, d \in DOMAIN caller :
    /\ caller[c].pc = "suspended"
    /\ caller[c].wake > now
    /\ caller[c].wake - now < limits[caller[c].service]
    /\ caller[d].pc = "returned"
    /\ caller[d].waited
    /\ lastRequest[caller[d].service] = caller[d].at

(* C30: the result list always holds the results of a whole number of       *)
(* chunks, in input order: its length is a chunk boundary, its k-th entry   *)
(* is the value track k resolved with, and every track of the chunk of an   *)
(* entry has resolved; a track that has resolved while a member of its      *)
(* chunk has not is not in the list.                                        *)
C30_WholeChunks ==
  /\ Len(results) <= Len(input)
  /\ Len(results) = Len(input) \/ Len(results) % maxConcurrent = 0
  /\ \A k \in 1..Len(results) :
       /\ results[k] = settled[k]
       /\ \A j \in Tracks : ChunkOf(j) = ChunkOf(k) => pc[j] = "done"

\* a track was found while another track of its chunk is still being
\* resolved: its result is not in the list yet
C30_Witness ==
  \E k, j \in Tracks :
    /\ ChunkOf(k) = ChunkOf(j)
    /\ pc[k] = "done"
    /\ settled[k].found
    /\ j \in InFlight
    /\ Len(results) < k

(* C31: every track handed to searchTracksWithWaterfall, whether it comes   *)
(* from the LLM cleanup or from the conversion that skips it, has a         *)
(* certainty in [0, 1] and isValid = (certainty >= 0.5).                    *)
C31_CertaintyAndValidity ==
  hPc # "ready" =>
    \A k \in 1..Len(input) :
      /\ input[k].certainty \in 0..100
      /\ input[k].isValid = (input[k].certainty >= 50)

\* handle was given a maxTracks that validateMaxTracks accepted
MaxTracksAccepted ==
  /\ hPc # "ready"
  /\ job.maxTracks.given
  /\ validateMaxTracks(job.maxTracks).kind = "return"

(* C37: when maxTracks is given and accepted by the validation, the track   *)
(* list handed to searchTracksWithWaterfall has at most maxTracks tracks,   *)
(* and so has the qualityReport of the result.                              *)
C37_MaxTracksBounds ==
  MaxTracksAccepted =>
    /\ 2 * Len(input) <= job.maxTracks.halves
    /\ hPc = "reported" => 2 * Len(report.qualityReport) <= job.maxTracks.halves

(* C32: with a track list of any length and a window of at least 1, when    *)
(* every lookup is answered and every throttle and backoff timer fires, the *)
(* batch eventually returns, with exactly one result per track, in order.   *)
C32_BatchTerminates ==
  <>(/\ mainPc = "returned"
     /\ Len(results) = Len(input)
     /\ \A k \in 1..Len(results) : results[k].track = input[k])

\* the batch returned one result per track after a track waited in throttle
\* and then in a backoff
C32_Witness ==
  /\ mainPc = "returned"
  /\ Len(results) = LiveTracks
  /\ \E k \in Tracks :
       /\ Len(outcomes[k]) = retryAttempts
       /\ outcomes[k][1] = "http_error"
       /\ lastRequest["notslider"] > EpochMs

\* the step issues the lookup of a further attempt of the search for track k
RetryIssued(k) == attempt'[k] = attempt[k] + 1

(* C33: every lookup sent to the primary provider is at least the           *)
(* provider's minimum delay after the lookup before it: the first lookups   *)
(* of the searches, which follow a return of throttle, are that far apart,  *)
(* and the lookup of a retry is sent at least that long after the last      *)
(* recorded dispatch, at or after which the lookup before it was sent.      *)
C33_LookupsSpaced ==
  /\ [](returns["notslider"].n >= 2 =>
          returns["notslider"].minGap >= limits["notslider"])
  /\ [][\A k \in Tracks :
          RetryIssued(k) =>
            now - LastOf(lastRequest, "notslider") >= limits["notslider"]]_vars

(* C34: the averageQuality of the summary is "unknown" when no found result *)
(* of the list carries a quality, which includes the list without a found   *)
(* result, and otherwise is a quality that a found result carries.          *)
C34_AverageQualityKnown ==
  hPc = "summarized" =>
    IF Tiers = {}
    THEN report.summary.averageQuality = "unknown"
    ELSE report.summary.averageQuality \in Tiers

\* a summary of a list whose only found result has no quality, beside a
\* not-found one
C34_Witness ==
  /\ hPc = "summarized"
  /\ Tiers = {}
  /\ \E k \in 1..Len(results) : results[k].found
  /\ \E k \in 1..Len(results) : ~results[k].found

(* C35: the step that computes the summary leaves the result list as it     *)
(* was: the same results in the same order, each with the same fields.      *)
C35_SummaryKeepsResults ==
  [][(hPc = "summarize" /\ hPc' = "summarized") => results' = results]_vars

\* a summary was computed of a list in which a not-found result comes before
\* a found one
C35_Witness ==
  /\ hPc = "summarized"
  /\ \E k, n \in 1..Len(results) : k < n /\ ~results[k].found /\ results[n].found

\* the step is a call of getCurrentDelay
Queried == report' # report

(* C36: a call of getCurrentDelay, for any identifier and in any state of   *)
(* the limiter, leaves the map of recorded dispatch times as it was, leaves *)
(* every suspended throttle call with its timer, and leaves what a later    *)
(* throttle call for any identifier does: whether it suspends, until when,  *)
(* and what it records.                                                     *)
C36_QueryIsPure ==
  [][Queried =>
       /\ lastRequest' = lastRequest
       /\ caller' = caller
       /\ \A s \in CallerServices :
            throttle(s, lastRequest', now') = throttle(s, lastRequest, now)]_vars

\* the query answered with a remaining delay for a provider while a throttle
\* call for that provider was suspended
C36_Witness ==
  /\ "delay" \in DOMAIN report
  /\ report.service \in DOMAIN limits
  /\ report.delay > 0
  /\ \E c \in DOMAIN caller :
       caller[c].pc = "suspended" /\ caller[c].service = report.service

====
